---- MODULE Spec2Model ----
(***************************************************************************)
(* A model of scripts/analyze-debug-data.py: BirdNETDebugAnalyzer and      *)
(* main().  One run of the script is a strictly sequential walk: the       *)
(* pre-flight checks of main(), the seven analysis methods in the order    *)
(* analyze() calls them, the buffer swap and generate_summary(), and       *)
(* save_report().                                                          *)
(*                                                                         *)
(* Text is modelled by what the code reads out of it.  A line of renderer  *)
(* output is a record [k |-> "out", f, n]: f is the set of the substrings  *)
(* and tokens, among those the code's patterns look for, that the line     *)
(* contains, and n is the number the pattern that applies captures.        *)
(* Numbers with a decimal point (MB, GB, percentages) are carried in       *)
(* tenths: 600.5 MB is 6005.                                               *)
(***************************************************************************)
EXTENDS Integers, Sequences, FiniteSets, TLC

VARIABLES
    pc,               \* position of the run in main() / analyze()
    report,           \* self.report: the list of lines being built
    issues,           \* self.issues: list of [message, severity]
    metrics,          \* self.metrics: dict, metric name -> value
    summary_report,   \* local of analyze(): the detail lines set aside
    goroutine_types,  \* local of analyze_goroutines(): dict in insertion order
    heap_files,       \* local of analyze_time_series(): sorted snapshot names
    compared,         \* locals first_heap, last_heap of analyze_time_series()
    artifacts,        \* what each step's exists() test answered
    rendered,         \* how each step's first renderer invocation ended
    document          \* the content of analysis-report.md, <<>> while unwritten

vars == <<pc, report, issues, metrics, summary_report, goroutine_types,
          heap_files, compared, artifacts, rendered, document>>

-----------------------------------------------------------------------------
(* Bounds of the model. *)

\* at most this many lines follow each other in a goroutine listing
MaxLines == 2
\* at most this many heap-* snapshots lie in time-series
MaxSnapshots == 2
\* at most this many issues in a sequence handed to generate_summary alone
MaxIssues == 4

-----------------------------------------------------------------------------
(* Thresholds and slice lengths of the program. *)

HeapWarnMB == 500
HeapCriticalMB == 1024
MBPerGB == 1024
GoroutineWarn == 1000
GoroutineCritical == 5000
GcCpuPercent == 20
SyscallCpuPercent == 30
GrowthMB == 50
ProcCpuPercent == 80
ProcMemPercent == 50
WarningsForWarningHealth == 2
MinSnapshots == 2
TopLines == 20
ObjectLines == 10
ListingLines == 15
MinListingLen == 10
CpuScanFrom == 5
CpuScanTo == 15
MutexScanFrom == 5
MutexScanTo == 10

-----------------------------------------------------------------------------
(* Lines of the report. *)

\* add_section's line  "\n{'#' * level} {title}\n"
SectionLine(title, level) == [k |-> "section", title |-> title, level |-> level]
\* a fixed text
Text(s) == [k |-> "text", s |-> s]
\* a text with one formatted number, such as "Total Goroutines: {n}"
TextN(s, n) == [k |-> "textn", s |-> s, n |-> n]
\* a text with two formatted strings
Text2(s, a, b) == [k |-> "text2", s |-> s, a |-> a, b |-> b]
\* the fence of a code block
Fence == [k |-> "fence"]
\* a line of renderer output
OutLine(f, n) == [k |-> "out", f |-> f, n |-> n]
\* the health banner
HealthLine(icon, health) == [k |-> "health", icon |-> icon, health |-> health]
\* a line of the Issues Found block
IssueLine(icon, message) == [k |-> "issue", icon |-> icon, message |-> message]

\* a message: its fixed wording, its formatted number and unit
Message(m, n, u) == [m |-> m, n |-> n, u |-> u]
Issue(message, severity) == [message |-> message, severity |-> severity]

\* lines[:n]
FirstLines(lines, n) == SubSeq(lines, 1, IF Len(lines) < n THEN Len(lines) ELSE n)
\* lines[from:to]
Slice(lines, from, to) ==
    SubSeq(lines, from + 1, IF Len(lines) < to THEN Len(lines) ELSE to)

add_section(r, title, level) == Append(r, SectionLine(title, level))
add_text(r, line) == Append(r, line)
add_code_block(r, lines) == (Append(r, Fence) \o lines) \o <<Fence>>
\* a variant that puts the new issue in front (self.issues.insert(0, ...))
add_issue_front(is, message, severity) == <<Issue(message, severity)>> \o is
add_issue(is, message, severity) == Append(is, Issue(message, severity))

EmptyDict == [x \in {} |-> 0]
DictSet(d, key, value) == [x \in (DOMAIN d) \cup {key} |-> IF x = key THEN value ELSE d[x]]

-----------------------------------------------------------------------------
(* The renderer collaborator: go tool pprof -text. *)

Plain == OutLine({}, 0)
\* "Error running pprof: {e.stderr}": the diagnostic text is one line and
\* holds none of the tokens the patterns look for; <<>> is no further line
ErrorLine == OutLine({"Error running pprof"}, 0)
Stderrs == {<<>>}

\* run_pprof_command, split into lines: stdout when the command exits 0,
\* the inline error string when it raises CalledProcessError
run_pprof_command(ok, stdout, stderr) ==
    IF ok THEN stdout ELSE <<ErrorLine>> \o stderr

\* what one invocation can do: exit 0 with one of the texts, or fail
RenderResults(texts) ==
    {[ok |-> TRUE, stdout |-> o, stderr |-> <<>>] : o \in texts}
    \cup {[ok |-> FALSE, stdout |-> <<>>, stderr |-> e] : e \in Stderrs}

Render(res) == run_pprof_command(res.ok, res.stdout, res.stderr)
Outcome(res) == IF res.ok THEN "ok" ELSE "failed"

Tenths(x) == x * 10

-----------------------------------------------------------------------------
(* analyze_system_info *)

\* What the three patterns find in system-info.txt: the used/total pair of
\* the Mem: table, the CPU(s): count, the process's CPU% and memory%.
\* <<>> stands for a pattern that does not match.
SysContents ==
    { [mem |-> <<"7.6Gi", "3.1Gi">>, cpus |-> <<4>>, proc |-> <<800, 500>>],
      [mem |-> <<>>, cpus |-> <<>>, proc |-> <<801, 501>>] }

SystemInfoReport(r, content) ==
    LET r1 == add_section(r, "System Information", 2)
        r2 == IF content.mem # <<>>
              THEN add_text(r1, Text2("System Memory: {used_mem} used / {total_mem} total",
                                      content.mem[2], content.mem[1]))
              ELSE r1
        r3 == IF content.cpus # <<>>
              THEN add_text(r2, TextN("CPU Cores: {}", content.cpus[1]))
              ELSE r2
    IN  IF content.proc # <<>>
        THEN add_text(add_text(add_text(r3, Text("\nBirdNET-Go Process:")),
                               TextN("  CPU Usage: {cpu_percent}%", content.proc[1])),
                      TextN("  Memory Usage: {mem_percent}%", content.proc[2]))
        ELSE r3

SystemInfoIssues(is, content) ==
    IF content.proc = <<>> THEN is
    ELSE LET cpu_percent == content.proc[1]
             mem_percent == content.proc[2]
             i1 == IF cpu_percent > Tenths(ProcCpuPercent)
                   THEN add_issue(is, Message("High CPU usage by BirdNET-Go: {}%",
                                              cpu_percent, ""), "warning")
                   ELSE is
         IN  IF mem_percent > Tenths(ProcMemPercent)
             THEN add_issue(i1, Message("High memory usage by BirdNET-Go: {}%",
                                        mem_percent, ""), "warning")
             ELSE i1

-----------------------------------------------------------------------------
(* analyze_heap_profile *)

TotalLine(value, unit) ==
    OutLine({IF unit = "GB" THEN "GB total" ELSE "MB total"}, value)
IsTotalLine(line) == line.f \cap {"MB total", "GB total"} # {}

\* re.search(r'(\d+\.?\d*)(MB|GB) total', output): the first match in the
\* text, as <<value, unit>>, or <<>>
RECURSIVE SearchTotal(_)
SearchTotal(lines) ==
    IF lines = <<>> THEN <<>>
    ELSE IF IsTotalLine(lines[1])
         THEN <<lines[1].n, IF "GB total" \in lines[1].f THEN "GB" ELSE "MB">>
         ELSE SearchTotal(Tail(lines))

\* value *= 1024 for GB
NormalizeMB(value, unit) == IF unit = "GB" THEN value * MBPerGB ELSE value

\* f"{value/1024:.1f}": tenths of MB to tenths of GB, rounded
FormatGB(value) == (2 * value + MBPerGB) \div (2 * MBPerGB)

\* a variant with elif: the critical issue replaces the warning
HeapIssues_elif(is, value) ==
    IF value > Tenths(HeapCriticalMB)
    THEN add_issue(is, Message("Very high memory usage: {:.1f} GB", FormatGB(value), ""),
                   "critical")
    ELSE IF value > Tenths(HeapWarnMB)
    THEN add_issue(is, Message("High memory usage: {:.1f} MB", value, ""), "warning")
    ELSE is

HeapIssues(is, value) ==
    LET i1 == IF value > Tenths(HeapWarnMB)
              THEN add_issue(is, Message("High memory usage: {:.1f} MB", value, ""),
                             "warning")
              ELSE is
    IN  IF value > Tenths(HeapCriticalMB)
        THEN add_issue(i1, Message("Very high memory usage: {:.1f} GB",
                                   FormatGB(value), ""), "critical")
        ELSE i1

\* the texts of the whole run, and those of the heap step taken alone
HeapOutputs ==
    { <<Plain>>, <<TotalLine(6005, "MB")>>, <<TotalLine(12, "GB")>> }
HeapValues == {0, 4, 10, 12, 4999, 5000, 5001, 6005, 10240, 10241}
AllHeapOutputs ==
    { <<Plain>>, <<Plain, TotalLine(6005, "MB"), TotalLine(12, "GB")>> }
    \cup { <<TotalLine(v, u)>> : v \in HeapValues, u \in {"MB", "GB"} }
ObjectOutputs == { <<Plain>> }

-----------------------------------------------------------------------------
(* analyze_goroutines *)

\* a line re.match(r'\s*(\d+)\s+@?\s*0x[0-9a-f]+\s+(.*)') accepts: its count
\* and the substrings of interest in its location text.  A record of a
\* stack dump counts the goroutines sharing one stack, so count >= 1.
StackLine(count, location) == OutLine({"count @ 0x"} \cup location, count)
Matches(line) == "count @ 0x" \in line.f

\* a variant with a closing else that tallies every other line as well
Category_with_other(location) ==
    IF "runtime.gopark" \in location THEN "parked"
    ELSE IF "chan receive" \in location THEN "chan_receive"
    ELSE IF "chan send" \in location THEN "chan_send"
    ELSE IF "select" \in location THEN "select"
    ELSE "other"

\* the if/elif chain over the location text; "" when no branch is taken
Category(location) ==
    IF "runtime.gopark" \in location THEN "parked"
    ELSE IF "chan receive" \in location THEN "chan_receive"
    ELSE IF "chan send" \in location THEN "chan_send"
    ELSE IF "select" \in location THEN "select"
    ELSE ""

\* goroutine_types[t] = goroutine_types.get(t, 0) + count, on a dict that
\* keeps its keys in insertion order
Tally(types, t, count) ==
    IF \E i \in 1..Len(types) : types[i].t = t
    THEN [i \in 1..Len(types) |->
            IF types[i].t = t THEN [t |-> t, c |-> types[i].c + count] ELSE types[i]]
    ELSE Append(types, [t |-> t, c |-> count])

\* the for loop over the lines: <<total_goroutines, goroutine_types>>
RECURSIVE CountGoroutines(_, _, _)
CountGoroutines(lines, total, types) ==
    IF lines = <<>> THEN <<total, types>>
    ELSE LET line == lines[1]
             cat == Category(line.f)
         IN  IF Matches(line)
             THEN CountGoroutines(Tail(lines), total + line.n,
                                  IF cat = "" THEN types ELSE Tally(types, cat, line.n))
             ELSE CountGoroutines(Tail(lines), total, types)

\* sorted(goroutine_types.items(), key=lambda x: x[1], reverse=True): stable
RECURSIVE InsertDesc(_, _)
InsertDesc(sorted, x) ==
    IF sorted = <<>> THEN <<x>>
    ELSE IF sorted[1].c >= x.c THEN <<sorted[1]>> \o InsertDesc(Tail(sorted), x)
    ELSE <<x>> \o sorted
RECURSIVE SortedDesc(_)
SortedDesc(types) ==
    IF types = <<>> THEN <<>>
    ELSE InsertDesc(SortedDesc(SubSeq(types, 1, Len(types) - 1)), types[Len(types)])

DistributionLines(types) ==
    [i \in 1..Len(types) |-> TextN(types[i].t, types[i].c)]

GoroutineIssues(is, total) ==
    LET i1 == IF total > GoroutineWarn
              THEN add_issue(is, Message("High goroutine count: {}", total, ""), "warning")
              ELSE is
    IN  IF total > GoroutineCritical
        THEN add_issue(i1, Message("Very high goroutine count: {} (possible leak)",
                                   total, ""), "critical")
        ELSE i1

GoroutineLineKinds ==
    { Plain,
      StackLine(1, {}),
      StackLine(1000, {"runtime.gopark", "select"}),
      StackLine(4001, {"chan receive"}),
      StackLine(2, {"chan send", "chan receive"}),
      StackLine(3, {"select"}) }
\* the texts of the whole run, and those of the goroutine step taken alone
GoroutineOutputs ==
    { <<StackLine(1, {})>>,
      <<StackLine(1000, {"runtime.gopark"}), StackLine(4001, {"chan receive"})>> }
AllGoroutineOutputs ==
    UNION {[1..n -> GoroutineLineKinds] : n \in 1..MaxLines}

-----------------------------------------------------------------------------
(* analyze_cpu_profile *)

\* a line of the -top -cum listing: the names it contains and the first
\* percentage re.search(r'(\d+\.?\d*)%') finds in it (none: -1)
CpuLine(names, percent) ==
    OutLine(names \cup (IF percent >= 0 THEN {"%"} ELSE {}), percent)

RECURSIVE CpuIssues(_, _)
CpuIssues(is, lines) ==
    IF lines = <<>> THEN is
    ELSE LET line == lines[1]
             match == "%" \in line.f
             i1 == IF "runtime.gcBgMarkWorker" \in line.f
                   THEN IF match /\ line.n > Tenths(GcCpuPercent)
                        THEN add_issue(is, Message("High GC CPU usage: {}%", line.n, ""),
                                       "warning")
                        ELSE is
                   ELSE IF "syscall" \in line.f
                   THEN IF match /\ line.n > Tenths(SyscallCpuPercent)
                        THEN add_issue(is, Message("High syscall CPU usage: {}%", line.n, ""),
                                       "info")
                        ELSE is
                   ELSE is
         IN  CpuIssues(i1, Tail(lines))

Header == [i \in 1..CpuScanFrom |-> Plain]
CpuOutputs ==
    { Header \o <<CpuLine({"syscall"}, 301), CpuLine({"runtime.gcBgMarkWorker"}, 201)>>,
      <<CpuLine({"runtime.gcBgMarkWorker"}, 250)>> \o Header
         \o <<CpuLine({"runtime.gcBgMarkWorker", "syscall"}, 300),
              CpuLine({"syscall"}, -1)>> }

-----------------------------------------------------------------------------
(* analyze_mutex_profile, analyze_block_profile *)

\* a line where re.search(r'[1-9]\d{6,}') finds a match
BigNumberLine == OutLine({"[1-9]\\d{6,}"}, 0)
HasBigNumber(line) == "[1-9]\\d{6,}" \in line.f

\* the for loop with its break: at most one issue
MutexIssues(is, lines) ==
    IF \E i \in 1..Len(lines) : HasBigNumber(lines[i])
    THEN add_issue(is, Message("High mutex contention detected", 0, ""), "warning")
    ELSE is

Padding(n) == [i \in 1..n |-> Plain]
MutexOutputs ==
    { <<Plain>>,
      Padding(MutexScanTo) \o <<BigNumberLine>>,
      Padding(MutexScanFrom) \o <<BigNumberLine, BigNumberLine>> \o Padding(MutexScanFrom) }
BlockOutputs == { <<Plain>>, Padding(MinListingLen + 1) }

-----------------------------------------------------------------------------
(* analyze_time_series *)

\* The <token> of a snapshot heap-<token>.pprof, as its digits.  Path
\* objects sort as their strings do: digit by digit, a proper prefix first
\* ('.' sorts before every digit).
SnapshotNames == { <<2>>, <<1, 0>>, <<9>> }

RECURSIVE LexLess(_, _)
LexLess(a, b) ==
    IF b = <<>> THEN FALSE
    ELSE IF a = <<>> THEN TRUE
    ELSE IF a[1] # b[1] THEN a[1] < b[1]
    ELSE LexLess(Tail(a), Tail(b))

RECURSIVE InsertLex(_, _)
InsertLex(sorted, x) ==
    IF sorted = <<>> THEN <<x>>
    ELSE IF LexLess(x, sorted[1]) THEN <<x>> \o sorted
    ELSE <<sorted[1]>> \o InsertLex(Tail(sorted), x)
\* sorted(time_series_dir.glob("heap-*.pprof"))
RECURSIVE Sorted(_)
Sorted(listing) ==
    IF listing = <<>> THEN <<>>
    ELSE InsertLex(Sorted(Tail(listing)), listing[1])

\* the directory listings glob can return: the snapshots in any order
Listings ==
    UNION {{l \in [1..n -> SnapshotNames] : \A i, j \in 1..n : i # j => l[i] # l[j]}
           : n \in 0..MaxSnapshots}

\* a variant that runs the comparison on a single snapshot
EnoughSnapshots_one(files) == ~(Len(files) < 1)

\* enough snapshots for a comparison
EnoughSnapshots(files) == ~(Len(files) < MinSnapshots)

GrowthIssues(is, total) ==
    IF total # <<>> /\ (total[2] = "GB" \/ total[1] > Tenths(GrowthMB))
    THEN add_issue(is, Message("Significant memory growth detected: {}{}",
                               total[1], total[2]), "warning")
    ELSE is

GrowthOutputs == { <<TotalLine(501, "MB")>> }

-----------------------------------------------------------------------------
(* generate_summary *)

CountSeverity(is, severity) ==
    Cardinality({i \in 1..Len(is) : is[i].severity = severity})

\* a variant whose WARNING tier starts at two warnings
Health_from_two(critical_issues, warning_issues) ==
    IF critical_issues > 0 THEN "CRITICAL"
    ELSE IF warning_issues >= WarningsForWarningHealth THEN "WARNING"
    ELSE "GOOD"

Health(critical_issues, warning_issues) ==
    IF critical_issues > 0 THEN "CRITICAL"
    ELSE IF warning_issues > WarningsForWarningHealth THEN "WARNING"
    ELSE "GOOD"

\* the banner's icon: a warning sign, or a check mark for GOOD
HealthIcon(health) == IF health = "GOOD" THEN "CHECK_MARK" ELSE "WARNING_SIGN"

\* red, yellow and blue circle
Icon(severity) ==
    IF severity = "critical" THEN "RED_CIRCLE"
    ELSE IF severity = "warning" THEN "YELLOW_CIRCLE"
    ELSE "BLUE_CIRCLE"

Urgent ==
    << Text("1. Address critical issues immediately"),
       Text("2. Consider restarting BirdNET-Go if memory usage is excessive") >>
MonitorOptimize ==
    << Text("1. Monitor the warnings and plan for optimization"),
       Text("2. Review the detailed analysis sections below") >>
Routine ==
    << Text("1. Continue regular monitoring"),
       Text("2. Consider setting up automated alerts for resource usage") >>

\* a variant that selects by the health tier
Recommendations_by_health(critical_issues, warning_issues) ==
    IF Health(critical_issues, warning_issues) = "CRITICAL" THEN Urgent
    ELSE IF Health(critical_issues, warning_issues) = "WARNING" THEN MonitorOptimize
    ELSE Routine

Recommendations(critical_issues, warning_issues) ==
    IF critical_issues > 0 THEN Urgent
    ELSE IF warning_issues > 0 THEN MonitorOptimize
    ELSE Routine

KeyMetrics(m) ==
    (IF "heap_total_mb" \in DOMAIN m
     THEN <<TextN("- Memory Usage: {:.1f} MB", m["heap_total_mb"])>> ELSE <<>>)
    \o (IF "goroutines_total" \in DOMAIN m
        THEN <<TextN("- Goroutines: {}", m["goroutines_total"])>> ELSE <<>>)

IssuesFound(is) ==
    IF is # <<>>
    THEN <<Text("\n**Issues Found:**")>>
         \o [i \in 1..Len(is) |-> IssueLine(Icon(is[i].severity), is[i].message)]
    ELSE <<Text("\nNo significant issues detected")>>

generate_summary(r, is, m) ==
    LET critical_issues == CountSeverity(is, "critical")
        warning_issues == CountSeverity(is, "warning")
        health == Health(critical_issues, warning_issues)
    IN  add_section(r, "Executive Summary", 1)
        \o <<HealthLine(HealthIcon(health), health)>>
        \o <<Text("\n**Key Metrics:**")>> \o KeyMetrics(m)
        \o IssuesFound(is)
        \o <<Text("\n**Recommendations:**")>>
        \o Recommendations(critical_issues, warning_issues)

-----------------------------------------------------------------------------
(* analyze: the order of the steps *)

Artifacts == {"system_info", "heap", "goroutine", "cpu", "mutex", "block", "time_series"}
Renders == {"heap", "heap_objects", "goroutine", "cpu", "mutex", "block", "time_series"}

\* a variant of the order that renders the summary before the last step
NextStep_summary_early(p) ==
    CASE p = "system_info" -> "heap"
      [] p = "heap" -> "goroutine"
      [] p = "goroutine" -> "cpu"
      [] p = "cpu" -> "mutex"
      [] p = "mutex" -> "block"
      [] p = "block" -> "swap"
      [] p = "swap" -> "summary"
      [] p = "summary" -> "extend"
      [] p = "extend" -> "time_series"
      [] p = "time_series" -> "save"

\* the statement of analyze() that follows statement p
NextStep(p) ==
    CASE p = "system_info" -> "heap"
      [] p = "heap" -> "goroutine"
      [] p = "goroutine" -> "cpu"
      [] p = "cpu" -> "mutex"
      [] p = "mutex" -> "block"
      [] p = "block" -> "time_series"
      [] p = "time_series" -> "swap"
      [] p = "swap" -> "summary"
      [] p = "summary" -> "extend"
      [] p = "extend" -> "save"

\* a variant that leaves the summary after the detail lines
extend_after(r, saved) == saved \o r

\* self.report.extend(summary_report), self.report holding the summary
extend(r, saved) == r \o saved

Init ==
    /\ pc = "main"
    /\ report = <<>>
    /\ issues = <<>>
    /\ metrics = EmptyDict
    /\ summary_report = <<>>
    /\ goroutine_types = <<>>
    /\ heap_files = <<>>
    /\ compared = <<>>
    /\ artifacts = [a \in Artifacts |-> "unchecked"]
    /\ rendered = [a \in Renders |-> "none"]
    /\ document = <<>>

\* main() up to analyzer.analyze(): the three pre-flight checks
Main ==
    /\ pc = "main"
    /\ \E has_argument, dir_exists, go_found \in BOOLEAN :
          pc' = IF has_argument /\ dir_exists /\ go_found THEN "system_info" ELSE "exit_1"
    /\ UNCHANGED <<report, issues, metrics, summary_report, goroutine_types,
                   heap_files, compared, artifacts, rendered, document>>

\* a step whose artifact does not exist returns at once
Skip(a) ==
    /\ artifacts' = [artifacts EXCEPT ![a] = "absent"]
    /\ pc' = NextStep(pc)
    /\ UNCHANGED <<report, issues, metrics, summary_report, goroutine_types,
                   heap_files, compared, rendered, document>>

\* open() or read() raises: nothing catches it in analyze() or main()
AnalyzeSystemInfo ==
    /\ pc = "system_info"
    /\ \E file \in {"absent", "readable", "unreadable"} :
          CASE file = "absent" -> Skip("system_info")
            [] file = "unreadable" ->
                  /\ report' = add_section(report, "System Information", 2)
                  /\ artifacts' = [artifacts EXCEPT !.system_info = "present"]
                  /\ pc' = "aborted"
                  /\ UNCHANGED <<issues, metrics, summary_report, goroutine_types,
                                 heap_files, compared, rendered, document>>
            [] file = "readable" ->
                  \E content \in SysContents :
                     /\ report' = SystemInfoReport(report, content)
                     /\ issues' = SystemInfoIssues(issues, content)
                     /\ artifacts' = [artifacts EXCEPT !.system_info = "present"]
                     /\ pc' = NextStep(pc)
                     /\ UNCHANGED <<metrics, summary_report, goroutine_types,
                                    heap_files, compared, rendered, document>>

AnalyzeHeapProfile(texts) ==
    /\ pc = "heap"
    /\ \E exists \in BOOLEAN :
          IF ~exists THEN Skip("heap")
          ELSE \E top \in RenderResults(texts), objects \in RenderResults(ObjectOutputs) :
                  LET output == Render(top)
                      match == SearchTotal(output)
                      value == NormalizeMB(match[1], match[2])
                  IN  /\ report' =
                            add_code_block(
                              add_text(
                                add_code_block(
                                  add_text(add_section(report, "Heap Memory Analysis", 2),
                                           Text("Top Memory Consumers (MB):")),
                                  FirstLines(output, TopLines)),
                                Text("\nTop Object Allocations:")),
                              FirstLines(Render(objects), ObjectLines))
                      /\ metrics' = IF match # <<>>
                                    THEN DictSet(metrics, "heap_total_mb", value)
                                    ELSE metrics
                      /\ issues' = IF match # <<>> THEN HeapIssues(issues, value) ELSE issues
                      /\ artifacts' = [artifacts EXCEPT !.heap = "present"]
                      /\ rendered' = [rendered EXCEPT !.heap = Outcome(top),
                                                      !.heap_objects = Outcome(objects)]
                      /\ pc' = NextStep(pc)
                      /\ UNCHANGED <<summary_report, goroutine_types, heap_files,
                                     compared, document>>

AnalyzeGoroutines(texts) ==
    /\ pc = "goroutine"
    /\ \E exists \in BOOLEAN :
          IF ~exists THEN Skip("goroutine")
          ELSE \E res \in RenderResults(texts) :
                  LET lines == Render(res)
                      counted == CountGoroutines(lines, 0, <<>>)
                      total_goroutines == counted[1]
                  IN  /\ goroutine_types' = counted[2]
                      /\ metrics' = DictSet(metrics, "goroutines_total", total_goroutines)
                      /\ issues' = GoroutineIssues(issues, total_goroutines)
                      /\ report' =
                            add_code_block(
                              add_text(
                                add_text(
                                  add_text(add_section(report, "Goroutine Analysis", 2),
                                           TextN("Total Goroutines: {}", total_goroutines)),
                                  Text("\nGoroutine Distribution:"))
                                \o DistributionLines(SortedDesc(counted[2])),
                                Text("\nTop Goroutine Locations:")),
                              FirstLines(lines, TopLines))
                      /\ artifacts' = [artifacts EXCEPT !.goroutine = "present"]
                      /\ rendered' = [rendered EXCEPT !.goroutine = Outcome(res)]
                      /\ pc' = NextStep(pc)
                      /\ UNCHANGED <<summary_report, heap_files, compared, document>>

AnalyzeCpuProfile ==
    /\ pc = "cpu"
    /\ \E exists \in BOOLEAN :
          IF ~exists THEN Skip("cpu")
          ELSE \E res \in RenderResults(CpuOutputs) :
                  LET output == Render(res)
                  IN  /\ report' =
                            add_code_block(
                              add_text(add_section(report, "CPU Profile Analysis", 2),
                                       Text("Top CPU Consumers (cumulative):")),
                              FirstLines(output, TopLines))
                      /\ issues' = CpuIssues(issues, Slice(output, CpuScanFrom, CpuScanTo))
                      /\ artifacts' = [artifacts EXCEPT !.cpu = "present"]
                      /\ rendered' = [rendered EXCEPT !.cpu = Outcome(res)]
                      /\ pc' = NextStep(pc)
                      /\ UNCHANGED <<metrics, summary_report, goroutine_types,
                                     heap_files, compared, document>>

AnalyzeMutexProfile ==
    /\ pc = "mutex"
    /\ \E exists \in BOOLEAN :
          IF ~exists THEN Skip("mutex")
          ELSE \E res \in RenderResults(MutexOutputs) :
                  LET lines == Render(res)
                      r1 == add_section(report, "Mutex Contention Analysis", 2)
                  IN  /\ IF Len(lines) > MinListingLen
                         THEN /\ report' =
                                    add_code_block(
                                      add_text(r1, Text("Top Mutex Contention Points:")),
                                      FirstLines(lines, ListingLines))
                              /\ issues' = MutexIssues(issues,
                                                       Slice(lines, MutexScanFrom, MutexScanTo))
                         ELSE /\ report' =
                                    add_text(r1,
                                      Text("Low or no mutex contention detected (good!)"))
                              /\ issues' = issues
                      /\ artifacts' = [artifacts EXCEPT !.mutex = "present"]
                      /\ rendered' = [rendered EXCEPT !.mutex = Outcome(res)]
                      /\ pc' = NextStep(pc)
                      /\ UNCHANGED <<metrics, summary_report, goroutine_types,
                                     heap_files, compared, document>>

AnalyzeBlockProfile ==
    /\ pc = "block"
    /\ \E exists \in BOOLEAN :
          IF ~exists THEN Skip("block")
          ELSE \E res \in RenderResults(BlockOutputs) :
                  LET lines == Render(res)
                      r1 == add_section(report, "Blocking Operations Analysis", 2)
                  IN  /\ report' =
                            IF Len(lines) > MinListingLen
                            THEN add_code_block(
                                   add_text(r1, Text("Top Blocking Operations:")),
                                   FirstLines(lines, ListingLines))
                            ELSE add_text(r1,
                                   Text("Low or no blocking operations detected (good!)"))
                      /\ artifacts' = [artifacts EXCEPT !.block = "present"]
                      /\ rendered' = [rendered EXCEPT !.block = Outcome(res)]
                      /\ pc' = NextStep(pc)
                      /\ UNCHANGED <<issues, metrics, summary_report, goroutine_types,
                                     heap_files, compared, document>>

AnalyzeTimeSeries ==
    /\ pc = "time_series"
    /\ \E exists \in BOOLEAN :
          IF ~exists THEN Skip("time_series")
          ELSE \E listing \in Listings :
                  LET files == Sorted(listing)
                  IN  /\ heap_files' = files
                      /\ artifacts' = [artifacts EXCEPT !.time_series = "present"]
                      /\ pc' = NextStep(pc)
                      /\ IF ~EnoughSnapshots(files)
                         THEN UNCHANGED <<report, issues, compared, rendered>>
                         ELSE \E res \in RenderResults(GrowthOutputs) :
                                 LET first_heap == files[1]
                                     last_heap == files[Len(files)]
                                     output == Render(res)
                                 IN  /\ compared' = <<first_heap, last_heap>>
                                     /\ report' =
                                           add_code_block(
                                             add_text(
                                               add_section(report,
                                                           "Memory Growth Analysis", 2),
                                               Text2("Memory growth between {} and {}:",
                                                     first_heap, last_heap)),
                                             FirstLines(output, ListingLines))
                                     /\ issues' = GrowthIssues(issues, SearchTotal(output))
                                     /\ rendered' = [rendered EXCEPT
                                                       !.time_series = Outcome(res)]
                      /\ UNCHANGED <<metrics, summary_report, goroutine_types, document>>

\* self.report, summary_report = summary_report, self.report
Swap ==
    /\ pc = "swap"
    /\ summary_report' = report
    /\ report' = <<>>
    /\ pc' = NextStep(pc)
    /\ UNCHANGED <<issues, metrics, goroutine_types, heap_files, compared,
                   artifacts, rendered, document>>

GenerateSummary ==
    /\ pc = "summary"
    /\ report' = generate_summary(report, issues, metrics)
    /\ pc' = NextStep(pc)
    /\ UNCHANGED <<issues, metrics, summary_report, goroutine_types, heap_files,
                   compared, artifacts, rendered, document>>

Extend ==
    /\ pc = "extend"
    /\ report' = extend(report, summary_report)
    /\ pc' = NextStep(pc)
    /\ UNCHANGED <<issues, metrics, summary_report, goroutine_types, heap_files,
                   compared, artifacts, rendered, document>>

\* save_report: the lines of self.report, joined, written to the file
SaveReport ==
    /\ pc = "save"
    /\ document' = report
    /\ pc' = "done"
    /\ UNCHANGED <<report, issues, metrics, summary_report, goroutine_types,
                   heap_files, compared, artifacts, rendered>>

Next ==
    \/ Main
    \/ AnalyzeSystemInfo
    \/ AnalyzeHeapProfile(HeapOutputs)
    \/ AnalyzeGoroutines(GoroutineOutputs)
    \/ AnalyzeCpuProfile
    \/ AnalyzeMutexProfile
    \/ AnalyzeBlockProfile
    \/ AnalyzeTimeSeries
    \/ Swap
    \/ GenerateSummary
    \/ Extend
    \/ SaveReport

Spec == Init /\ [][Next]_vars

-----------------------------------------------------------------------------
(* The heap step and the goroutine step over all their texts: the run up   *)
(* to and including the step.                                              *)

HeapNext ==
    \/ Main
    \/ AnalyzeSystemInfo
    \/ AnalyzeHeapProfile(AllHeapOutputs)

HeapSpec == Init /\ [][HeapNext]_vars

GoroutineNext ==
    \/ Main
    \/ AnalyzeSystemInfo
    \/ AnalyzeHeapProfile(HeapOutputs)
    \/ AnalyzeGoroutines(AllGoroutineOutputs)

GoroutineSpec == Init /\ [][GoroutineNext]_vars

-----------------------------------------------------------------------------
(* generate_summary over every Issue sequence and Metric mapping: the tail *)
(* of analyze() from the buffer swap on.                                   *)

IssueKinds ==
    { Issue(Message("Very high memory usage: {:.1f} GB", 12, ""), "critical"),
      Issue(Message("High mutex contention detected", 0, ""), "warning"),
      Issue(Message("High syscall CPU usage: {}%", 301, ""), "info") }
IssueSequences == UNION {[1..n -> IssueKinds] : n \in 0..MaxIssues}
MetricMappings ==
    { EmptyDict,
      DictSet(EmptyDict, "heap_total_mb", 12288),
      DictSet(DictSet(EmptyDict, "heap_total_mb", 4096), "goroutines_total", 0) }

SummaryInit ==
    /\ pc = "swap"
    /\ report = <<>>
    /\ issues \in IssueSequences
    /\ metrics \in MetricMappings
    /\ summary_report = <<>>
    /\ goroutine_types = <<>>
    /\ heap_files = <<>>
    /\ compared = <<>>
    /\ artifacts = [a \in Artifacts |-> "absent"]
    /\ rendered = [a \in Renders |-> "none"]
    /\ document = <<>>

SummaryNext ==
    \/ Swap
    \/ GenerateSummary
    \/ Extend
    \/ SaveReport

SummarySpec == SummaryInit /\ [][SummaryNext]_vars

-----------------------------------------------------------------------------
(* Reading a report back, for the properties below. *)

ExecutiveSummary == SectionLine("Executive Summary", 1)

\* the detail sections in the order the specification fixes
DetailTitles ==
    << "System Information", "Heap Memory Analysis", "Goroutine Analysis",
       "CPU Profile Analysis", "Mutex Contention Analysis",
       "Blocking Operations Analysis", "Memory Growth Analysis" >>
StepNames ==
    << "system_info", "heap", "goroutine", "cpu", "mutex", "block", "time_series" >>
Rank(title) == CHOOSE i \in 1..Len(DetailTitles) : DetailTitles[i] = title
TitleOf(a) == DetailTitles[CHOOSE i \in 1..Len(StepNames) : StepNames[i] = a]

IsSection(line) == line.k = "section"
SectionIndices(r) == {i \in 1..Len(r) : IsSection(r[i])}
Titles(r) == {r[i].title : i \in SectionIndices(r)}

\* the lines of the section with this title: from its title line up to the
\* next title line
SectionBody(r, title) ==
    LET starts == {i \in SectionIndices(r) : r[i].title = title}
        from == CHOOSE i \in starts : TRUE
        later == {i \in SectionIndices(r) : i > from}
        to == IF later = {} THEN Len(r)
              ELSE (CHOOSE i \in later : \A j \in later : i <= j) - 1
    IN  IF starts = {} THEN <<>> ELSE SubSeq(r, from + 1, to)

\* the detail lines, wherever the run holds them at the moment
Details == IF pc \in {"summary", "extend", "save", "done"} THEN summary_report ELSE report

\* the step that raises an issue, by the wording of its message
RaisedBy(issue) ==
    LET m == issue.message.m
    IN  IF m \in {"High CPU usage by BirdNET-Go: {}%", "High memory usage by BirdNET-Go: {}%"}
        THEN "system_info"
        ELSE IF m \in {"High memory usage: {:.1f} MB", "Very high memory usage: {:.1f} GB"}
        THEN "heap"
        ELSE IF m \in {"High goroutine count: {}",
                       "Very high goroutine count: {} (possible leak)"}
        THEN "goroutine"
        ELSE IF m \in {"High GC CPU usage: {}%", "High syscall CPU usage: {}%"}
        THEN "cpu"
        ELSE IF m = "High mutex contention detected" THEN "mutex"
        ELSE "time_series"
StepRank(a) == CHOOSE i \in 1..Len(StepNames) : StepNames[i] = a
IssuesOf(a) == SelectSeq(issues, LAMBDA i : RaisedBy(i) = a)
Severities(is) == [i \in 1..Len(is) |-> is[i].severity]

Criticals == Cardinality({i \in 1..Len(issues) : issues[i].severity = "critical"})
Warnings == Cardinality({i \in 1..Len(issues) : issues[i].severity = "warning"})

\* the summary has been rendered into self.report
SummaryRendered == report # <<>> /\ report[1] = ExecutiveSummary
\* the lines of the rendered summary: the report up to the detail lines
SummaryPart == SubSeq(report, 1, Len(report) - (IF pc = "extend" THEN 0 ELSE Len(summary_report)))
RenderedHealth ==
    LET hs == {i \in 1..Len(SummaryPart) : SummaryPart[i].k = "health"}
    IN  IF Cardinality(hs) = 1 THEN SummaryPart[CHOOSE i \in hs : TRUE].health ELSE "none"
RenderedRecommendations ==
    LET at == {i \in 1..Len(SummaryPart) : SummaryPart[i] = Text("\n**Recommendations:**")}
        j == CHOOSE i \in at : TRUE
    IN  IF Cardinality(at) = 1 THEN SubSeq(SummaryPart, j + 1, Len(SummaryPart)) ELSE <<>>
RenderedIssues == SelectSeq(SummaryPart, LAMBDA l : l.k = "issue")

\* the sum of a sequence of numbers
RECURSIVE SumOf(_)
SumOf(counts) == IF counts = <<>> THEN 0 ELSE counts[1] + SumOf(Tail(counts))

-----------------------------------------------------------------------------
(* C1.  Once analyze() has completed, whatever artifacts were present, the *)
(* report starts with the Executive Summary title, the only title of the   *)
(* summary; the titles after it are detail titles in the fixed order       *)
(* System Information < Heap < Goroutine < CPU < Mutex < Blocking < Memory *)
(* Growth; and the lines after the summary are the detail lines, in the    *)
(* order in which the steps produced them.  The document is that report.   *)
C1_SummaryThenDetails ==
    pc \in {"save", "done"} =>
       LET n == Len(report) - Len(summary_report)
           details == SectionIndices(report) \ {1}
       IN  /\ report # <<>> /\ report[1] = ExecutiveSummary
           /\ \A i \in details :
                 report[i].level = 2 /\ \E r \in 1..Len(DetailTitles) :
                                            DetailTitles[r] = report[i].title
           /\ \A i, j \in details :
                 i < j => Rank(report[i].title) < Rank(report[j].title)
           /\ n >= 1
           /\ \A i \in 2..n : ~IsSection(report[i])
           /\ SubSeq(report, n + 1, Len(report)) = summary_report
           /\ (pc = "done" => document = report)

\* all seven detail sections follow the summary in a written document
C1_Witness ==
    pc = "done" /\ Cardinality(SectionIndices(document)) = 1 + Len(DetailTitles)

(* C2.  From the moment generate_summary starts until the document is      *)
(* written no issue is appended and no metric is written; it starts only   *)
(* when all seven steps have run; and in the written document the health,  *)
(* the key metrics and the issue lines are those of the final Metric       *)
(* mapping and Issue sequence.                                             *)
C2_SummaryAfterAllSteps ==
    /\ [][ /\ ((pc = "summary" \/ SummaryRendered) /\ pc # "done")
                 => (issues' = issues /\ metrics' = metrics)
           /\ pc' = "summary" => \A a \in Artifacts : artifacts'[a] # "unchecked"
         ]_vars
    /\ [](pc = "done" =>
            /\ RenderedHealth = (IF Criticals > 0 THEN "CRITICAL"
                                 ELSE IF Warnings > 2 THEN "WARNING" ELSE "GOOD")
            /\ \A l \in {SummaryPart[i] : i \in 1..Len(SummaryPart)} :
                  /\ (l.k = "textn" /\ l.s = "- Memory Usage: {:.1f} MB")
                        => ("heap_total_mb" \in DOMAIN metrics /\ l.n = metrics["heap_total_mb"])
                  /\ (l.k = "textn" /\ l.s = "- Goroutines: {}")
                        => ("goroutines_total" \in DOMAIN metrics
                            /\ l.n = metrics["goroutines_total"])
            /\ ("heap_total_mb" \in DOMAIN metrics)
                  <=> (\E i \in 1..Len(SummaryPart) :
                          SummaryPart[i].k = "textn"
                          /\ SummaryPart[i].s = "- Memory Usage: {:.1f} MB")
            /\ ("goroutines_total" \in DOMAIN metrics)
                  <=> (\E i \in 1..Len(SummaryPart) :
                          SummaryPart[i].k = "textn" /\ SummaryPart[i].s = "- Goroutines: {}")
            /\ [i \in 1..Len(RenderedIssues) |-> RenderedIssues[i].message]
                  = [i \in 1..Len(issues) |-> issues[i].message])

\* a written document whose summary shows both metrics and an issue of the
\* last step
C2_Witness ==
    /\ pc = "done"
    /\ DOMAIN metrics = {"heap_total_mb", "goroutines_total"}
    /\ IssuesOf("time_series") # <<>>

(* C3.  Once the pre-flight checks have passed, a run that has ended has   *)
(* written the report document: no analysis step aborts the run.           *)
C3_ReportAlwaysWritten ==
    pc \in {"done", "aborted"} => document # <<>>

(* C4.  A step whose renderer invocation failed has put the inline error   *)
(* string into its detail section and has written no entry into the        *)
(* Metric mapping.                                                         *)
C4_FailedRenderNoMetric ==
    \A a \in Artifacts \ {"system_info"} :
       rendered[a] = "failed" =>
          /\ \E i \in 1..Len(SectionBody(Details, TitleOf(a))) :
                SectionBody(Details, TitleOf(a))[i] = ErrorLine
          /\ a = "heap" => "heap_total_mb" \notin DOMAIN metrics
          /\ a = "goroutine" => "goroutines_total" \notin DOMAIN metrics

(* C5.  The health verdict of a rendered summary is CRITICAL if the number *)
(* of critical issues is greater than 0, otherwise WARNING if the number   *)
(* of warning issues is greater than 2, otherwise GOOD, for every Issue    *)
(* sequence: it depends on the two counts only.                            *)
C5_HealthVerdict ==
    SummaryRendered =>
       RenderedHealth = (IF Criticals > 0 THEN "CRITICAL"
                         ELSE IF Warnings > 2 THEN "WARNING" ELSE "GOOD")

\* three warnings and an info issue, no critical: WARNING
C5_Witness ==
    /\ pc = "done" /\ Criticals = 0 /\ Warnings = 3 /\ Len(issues) = 4
    /\ RenderedHealth = "WARNING"

(* C6, as claimed.  The Recommendations block is selected by the health    *)
(* tier: the urgent pair exactly when health is CRITICAL, the monitor and  *)
(* optimize pair exactly when it is WARNING, the routine pair exactly when *)
(* it is GOOD.                                                             *)
C6_RecommendationsByHealth ==
    SummaryRendered =>
       /\ (RenderedRecommendations = Urgent) <=> (RenderedHealth = "CRITICAL")
       /\ (RenderedRecommendations = MonitorOptimize) <=> (RenderedHealth = "WARNING")
       /\ (RenderedRecommendations = Routine) <=> (RenderedHealth = "GOOD")

(* C6, amended.  The Recommendations block is selected by the two counts:  *)
(* the urgent pair exactly when there is a critical issue (health          *)
(* CRITICAL), the monitor and optimize pair exactly when there is no       *)
(* critical issue and at least one warning (health WARNING, or GOOD with   *)
(* one or two warnings), the routine pair exactly when there is neither.   *)
C6_RecommendationsByCounts ==
    SummaryRendered =>
       /\ (RenderedRecommendations = Urgent) <=> (Criticals > 0)
       /\ (RenderedRecommendations = MonitorOptimize) <=> (Criticals = 0 /\ Warnings > 0)
       /\ (RenderedRecommendations = Routine) <=> (Criticals = 0 /\ Warnings = 0)
       /\ (RenderedRecommendations = Urgent) <=> (RenderedHealth = "CRITICAL")
       /\ (RenderedHealth = "WARNING") => (RenderedRecommendations = MonitorOptimize)
       /\ (RenderedRecommendations = Routine) => (RenderedHealth = "GOOD")

\* health GOOD with the monitor and optimize pair
C6_Witness ==
    /\ pc = "done" /\ RenderedHealth = "GOOD" /\ Warnings = 2
    /\ RenderedRecommendations = MonitorOptimize

(* C7.  After the heap step, for every total found in the rendered text    *)
(* (a GB value multiplied by 1024, an MB value as it is): heap_total_mb    *)
(* holds it, and the step has appended no issue when it is <= 500, one     *)
(* warning when 500 < it <= 1024, a warning followed by a critical when it *)
(* is > 1024.  When no total is found heap_total_mb is absent and the step *)
(* has appended no issue.                                                  *)
C7_HeapThresholds ==
    (pc = "goroutine" /\ artifacts.heap = "present") =>
       LET body == SectionBody(report, "Heap Memory Analysis")
           found == {i \in 1..Len(body) :
                        body[i].k = "out" /\ body[i].f \cap {"MB total", "GB total"} # {}}
           first == body[CHOOSE i \in found : \A j \in found : i <= j]
           mb == IF "GB total" \in first.f THEN first.n * 1024 ELSE first.n
       IN  IF found = {}
           THEN "heap_total_mb" \notin DOMAIN metrics /\ IssuesOf("heap") = <<>>
           ELSE /\ "heap_total_mb" \in DOMAIN metrics
                /\ metrics["heap_total_mb"] = mb
                /\ Severities(IssuesOf("heap")) =
                      (IF mb <= 5000 THEN <<>>
                       ELSE IF mb <= 10240 THEN <<"warning">>
                       ELSE <<"warning", "critical">>)

\* 1.2GB total: 1228.8 MB, a warning and then a critical
C7_Witness ==
    /\ pc = "goroutine" /\ artifacts.heap = "present"
    /\ "heap_total_mb" \in DOMAIN metrics /\ metrics["heap_total_mb"] = 12288
    /\ Severities(IssuesOf("heap")) = <<"warning", "critical">>

(* C8.  The Issue sequence is append-only: every step keeps the issues     *)
(* present, in content and position, and appends at the end.  Issues of an *)
(* earlier step of the order system-info, heap, goroutine, cpu, mutex,     *)
(* block, growth precede those of every later step.  The Issues Found      *)
(* block of a rendered summary holds every issue once, in discovery order, *)
(* with the icon of its severity: critical red, warning yellow, info blue. *)
C8_IssuesAppendOnly ==
    /\ [][ /\ Len(issues') >= Len(issues)
           /\ SubSeq(issues', 1, Len(issues)) = issues ]_vars
    /\ [](\A i, j \in 1..Len(issues) :
             i < j => StepRank(RaisedBy(issues[i])) <= StepRank(RaisedBy(issues[j])))
    /\ [](SummaryRendered =>
             RenderedIssues =
                [i \in 1..Len(issues) |->
                   [k |-> "issue",
                    icon |-> CASE issues[i].severity = "critical" -> "RED_CIRCLE"
                               [] issues[i].severity = "warning" -> "YELLOW_CIRCLE"
                               [] issues[i].severity = "info" -> "BLUE_CIRCLE",
                    message |-> issues[i].message]])

\* a written document whose issues are not in severity order: a critical
\* before an info before a warning
C8_Witness ==
    /\ pc = "done"
    /\ \E i, j, l \in 1..Len(issues) :
          /\ i < j /\ j < l
          /\ issues[i].severity = "critical"
          /\ issues[j].severity = "info"
          /\ issues[l].severity = "warning"
    /\ Len(RenderedIssues) = Len(issues)

(* C9.  In a written document a detail section is there if and only if its *)
(* artifact was present, once and not empty; an absent artifact adds no    *)
(* issue and no metric.  The Memory Growth Analysis section is there if    *)
(* and only if time-series holds at least two heap-* snapshots, and then   *)
(* the lexically first snapshot is compared against the lexically last.    *)
C9_SectionIffArtifact ==
    pc = "done" =>
       /\ \A a \in Artifacts \ {"time_series"} :
             /\ (TitleOf(a) \in Titles(document)) <=> (artifacts[a] = "present")
             /\ Cardinality({i \in SectionIndices(document) :
                                document[i].title = TitleOf(a)}) <= 1
             /\ artifacts[a] = "present" => SectionBody(document, TitleOf(a)) # <<>>
             /\ artifacts[a] = "absent" => IssuesOf(a) = <<>>
       /\ artifacts.heap = "absent" => "heap_total_mb" \notin DOMAIN metrics
       /\ artifacts.goroutine = "absent" => "goroutines_total" \notin DOMAIN metrics
       /\ LET snapshots == IF artifacts.time_series = "present"
                           THEN {heap_files[i] : i \in 1..Len(heap_files)} ELSE {}
              growth == SectionBody(document, "Memory Growth Analysis")
              lowest == CHOOSE x \in snapshots : \A y \in snapshots \ {x} : LexLess(x, y)
              highest == CHOOSE x \in snapshots : \A y \in snapshots \ {x} : LexLess(y, x)
          IN  /\ ("Memory Growth Analysis" \in Titles(document))
                    <=> (Cardinality(snapshots) >= 2)
              /\ Len(heap_files) = Cardinality(snapshots) \/ artifacts.time_series = "absent"
              /\ Cardinality(snapshots) < 2 =>
                    IssuesOf("time_series") = <<>> /\ compared = <<>>
              /\ Cardinality(snapshots) >= 2 =>
                    /\ compared = <<lowest, highest>>
                    /\ growth[1] = Text2("Memory growth between {} and {}:",
                                         lowest, highest)

\* exactly two snapshots, heap-9 and heap-10: heap-10 is the base, and the
\* heap artifact is absent
C9_Witness ==
    /\ pc = "done"
    /\ heap_files = << <<1, 0>>, <<9>> >>
    /\ compared = << <<1, 0>>, <<9>> >>
    /\ "Memory Growth Analysis" \in Titles(document)
    /\ artifacts.heap = "absent" /\ "Heap Memory Analysis" \notin Titles(document)

====
